---- MODULE Spec2Model ----
(***************************************************************************)
(* A model of SimpleFileCache (src/src/simple_file_cache.rs): a cache that *)
(* stores byte payloads in files whose path is derived from the SHA-256    *)
(* digest of the key's Display text.                                       *)
(*                                                                         *)
(* Text (keys, paths, hex strings) and payloads are sequences of byte      *)
(* values.  32-bit words of the digest computation are pairs <<hi, lo>> of *)
(* 16-bit halves, so that no intermediate value leaves TLC's integers.     *)
(***************************************************************************)
EXTENDS Integers, Sequences, FiniteSets

(***************************************************************************)
(* Sha256 (the digest of src/src/simple_file_cache.rs:44-46), FIPS 180-4.  *)
(***************************************************************************)
RECURSIVE Xor16(_, _)
Xor16(a, b) ==
  IF a = 0 THEN b
  ELSE IF b = 0 THEN a
  ELSE ((a + b) % 2) + 2 * Xor16(a \div 2, b \div 2)

RECURSIVE And16(_, _)
And16(a, b) ==
  IF a = 0 \/ b = 0 THEN 0
  ELSE ((a % 2) * (b % 2)) + 2 * And16(a \div 2, b \div 2)

Pow2(n) == 2 ^ n

WXor(x, y) == <<Xor16(x[1], y[1]), Xor16(x[2], y[2])>>

WAnd(x, y) == <<And16(x[1], y[1]), And16(x[2], y[2])>>

WNot(x) == <<65535 - x[1], 65535 - x[2]>>

WAdd(x, y) ==
  LET lo == x[2] + y[2]
      hi == x[1] + y[1] + (lo \div 65536)
  IN  <<hi % 65536, lo % 65536>>

\* x >> n for 0 <= n < 32
WShr(x, n) ==
  IF n >= 16
    THEN <<0, x[1] \div Pow2(n - 16)>>
    ELSE <<x[1] \div Pow2(n),
           (x[2] \div Pow2(n)) + (x[1] % Pow2(n)) * Pow2(16 - n)>>

\* x rotated right by n, 0 <= n < 32
WRotr(x, n) ==
  IF n >= 16
    THEN LET m == n - 16
         IN  <<(x[2] \div Pow2(m)) + (x[1] % Pow2(m)) * Pow2(16 - m),
               (x[1] \div Pow2(m)) + (x[2] % Pow2(m)) * Pow2(16 - m)>>
    ELSE <<(x[1] \div Pow2(n)) + (x[2] % Pow2(n)) * Pow2(16 - n),
           (x[2] \div Pow2(n)) + (x[1] % Pow2(n)) * Pow2(16 - n)>>

SHA256_H0 ==
  << <<27145, 58983>>, <<47975, 44677>>, <<15470, 62322>>, <<42319, 62778>>,
     <<20750, 21119>>, <<39685, 26764>>, <<8067, 55723>>, <<23520, 52505>> >>

SHA256_K ==
  << <<17034, 12184>>, <<28983, 17553>>, <<46528, 64463>>, <<59829, 56229>>,
     <<14678, 49755>>, <<23025, 4593>>, <<37439, 33444>>, <<43804, 24277>>,
     <<55303, 43672>>, <<4739, 23297>>, <<9265, 34238>>, <<21772, 32195>>,
     <<29374, 23924>>, <<32990, 45566>>, <<39900, 1703>>, <<49563, 61812>>,
     <<58523, 27073>>, <<61374, 18310>>, <<4033, 40390>>, <<9228, 41420>>,
     <<11753, 11375>>, <<19060, 33962>>, <<23728, 43484>>, <<30457, 35034>>,
     <<38974, 20818>>, <<43057, 50797>>, <<45059, 10184>>, <<48985, 32711>>,
     <<50912, 3059>>, <<54695, 37191>>, <<1738, 25425>>, <<5161, 10599>>,
     <<10167, 2693>>, <<11803, 8504>>, <<19756, 28156>>, <<21304, 3347>>,
     <<25866, 29524>>, <<30314, 2747>>, <<33218, 51502>>, <<37490, 11397>>,
     <<41663, 59553>>, <<43034, 26187>>, <<49739, 35696>>, <<51052, 20899>>,
     <<53650, 59417>>, <<54937, 1572>>, <<62478, 13701>>, <<4202, 41072>>,
     <<6564, 49430>>, <<7735, 27656>>, <<10056, 30540>>, <<13488, 48309>>,
     <<14620, 3251>>, <<20184, 43594>>, <<23452, 51791>>, <<26670, 28659>>,
     <<29839, 33518>>, <<30885, 25455>>, <<33992, 30740>>, <<36039, 520>>,
     <<37054, 65530>>, <<42064, 27883>>, <<48889, 41975>>, <<50801, 30962>> >>

RECURSIVE Zeros(_)
Zeros(n) == IF n <= 0 THEN <<>> ELSE <<0>> \o Zeros(n - 1)

\* The message followed by the bit 1, zero bits up to 56 mod 64 bytes, and
\* the message's length in bits as a 64-bit big-endian integer.
Sha256Pad(msg) ==
  LET len  == Len(msg)
      bits == 8 * len
      fill == (119 - (len % 64)) % 64
  IN  msg \o <<128>> \o Zeros(fill) \o
      <<0, 0, 0, 0, 0, bits \div 65536, (bits \div 256) % 256, bits % 256>>

\* The 16 big-endian words of block b (b = 0, 1, ...) of the padded message.
BlockWords(m, b) ==
  [i \in 1..16 |->
     LET o == 64 * b + 4 * (i - 1)
     IN  <<m[o + 1] * 256 + m[o + 2], m[o + 3] * 256 + m[o + 4]>>]

SmallSigma0(x) == WXor(WXor(WRotr(x, 7), WRotr(x, 18)), WShr(x, 3))

SmallSigma1(x) == WXor(WXor(WRotr(x, 17), WRotr(x, 19)), WShr(x, 10))

BigSigma0(x) == WXor(WXor(WRotr(x, 2), WRotr(x, 13)), WRotr(x, 22))

BigSigma1(x) == WXor(WXor(WRotr(x, 6), WRotr(x, 11)), WRotr(x, 25))

Ch(e, f, g) == WXor(WAnd(e, f), WAnd(WNot(e), g))

Maj(a, b, c) == WXor(WXor(WAnd(a, b), WAnd(a, c)), WAnd(b, c))

\* The message schedule extended to n words.
RECURSIVE Extend(_, _)
Extend(w, n) ==
  IF Len(w) >= n THEN w
  ELSE LET i == Len(w) + 1
       IN  Extend(Append(w,
             WAdd(WAdd(w[i - 16], SmallSigma0(w[i - 15])),
                  WAdd(w[i - 7], SmallSigma1(w[i - 2])))), n)

Schedule(block) == Extend(block, 64)

T1(s, k, x) ==
  WAdd(WAdd(WAdd(s[8], BigSigma1(s[5])), Ch(s[5], s[6], s[7])), WAdd(k, x))

T2(s) == WAdd(BigSigma0(s[1]), Maj(s[1], s[2], s[3]))

\* One round: the working variables a..h of s after mixing in t1 and t2.
Shift(s, t1, t2) ==
  <<WAdd(t1, t2), s[1], s[2], s[3], WAdd(s[4], t1), s[5], s[6], s[7]>>

Round(s, k, x) == Shift(s, T1(s, k, x), T2(s))

\* Rounds i..last of the compression function on the 8 working variables s
\* (the test of Len(s) has TLC evaluate s before it goes on to the next round).
RECURSIVE Rounds(_, _, _, _)
Rounds(s, w, i, last) ==
  IF i > last \/ Len(s) # 8 THEN s
  ELSE Rounds(Round(s, SHA256_K[i], w[i]), w, i + 1, last)

Compress(h, block) ==
  LET s == Rounds(h, Schedule(block), 1, 64)
  IN  [i \in 1..8 |-> WAdd(h[i], s[i])]

RECURSIVE Blocks(_, _, _)
Blocks(h, m, b) ==
  IF 64 * b >= Len(m) THEN h
  ELSE Blocks(Compress(h, BlockWords(m, b)), m, b + 1)

\* The 32 bytes of the digest of msg.
Sha256(msg) ==
  LET h == Blocks(SHA256_H0, Sha256Pad(msg), 0)
  IN  [i \in 1..32 |->
         LET x == h[((i - 1) \div 4) + 1]
             half == IF ((i - 1) % 4) < 2 THEN x[1] ELSE x[2]
         IN  IF (i - 1) % 2 = 0 THEN half \div 256 ELSE half % 256]

(***************************************************************************)
(* HexEncoder::LOWER.encode_as_string (line 47): two lowercase hex digits  *)
(* per byte, the high nibble first.                                        *)
(***************************************************************************)
HexDigits == <<48, 49, 50, 51, 52, 53, 54, 55, 56, 57, 97, 98, 99, 100, 101, 102>>

HexLower(bytes) ==
  [i \in 1..(2 * Len(bytes)) |->
     LET b == bytes[(i + 1) \div 2]
     IN  HexDigits[(IF i % 2 = 1 THEN b \div 16 ELSE b % 16) + 1]]

(***************************************************************************)
(* Bounds of the model, and the keys, payloads and roots it draws from.    *)
(***************************************************************************)
MaxCalls == 3

MaxFaults == 1

StrKey(text) == [kind |-> "str", str |-> text, int |-> 0]

IntKey(n) == [kind |-> "int", str |-> <<>>, int |-> n]

\* The keys "key", 7 and "7": two of them have the same Display text.
Keys == {StrKey(<<107, 101, 121>>), IntKey(7), StrKey(<<55>>)}

\* "Hello, World!", the key of the repository's file_path test (line 98).
HelloWorld == StrKey(<<72, 101, 108, 108, 111, 44, 32, 87, 111, 114, 108, 100, 33>>)

\* The keys file_path is asked about: those above, 42 and "Hello, World!".
PathKeys == Keys \cup {IntKey(42), HelloWorld}

\* The payloads "da" and "d": one is the beginning of the other.
Data == {<<100, 97>>, <<100>>}

\* Two callers, each holding a cache value of its own.
Callers == {"a", "b"}

\* "/cache/folder/", a folder the program names, and "/tmp/cache/", one that
\* FolderPath::temp() allocates: folder paths end with the separator.
GivenRoot == <<47, 99, 97, 99, 104, 101, 47, 102, 111, 108, 100, 101, 114, 47>>

TempRoot == <<47, 116, 109, 112, 47, 99, 97, 99, 104, 101, 47>>

Roots == {GivenRoot, TempRoot}

(***************************************************************************)
(* file_path (lines 38-56).                                                *)
(***************************************************************************)
RECURSIVE Decimal(_)
Decimal(n) ==
  IF n < 0 THEN <<45>> \o Decimal(0 - n)
  ELSE IF n < 10 THEN <<48 + n>>
  ELSE Decimal(n \div 10) \o <<48 + (n % 10)>>

\* key.to_string() (line 42): the Display text of the key.
to_string(key) == IF key.kind = "int" THEN Decimal(key.int) ELSE key.str

\* A variant that cuts the hash after two characters.
ExtensionCutAtTwo(hash) ==
  SubSeq(hash, 1, 2) \o <<47>> \o SubSeq(hash, 3, Len(hash)) \o
  <<46, 99, 97, 99, 104, 101>>

\* format!("{}/{}.cache", &hash[..4], &hash[4..]) (line 48)
Extension(hash) ==
  SubSeq(hash, 1, 4) \o <<47>> \o SubSeq(hash, 5, Len(hash)) \o
  <<46, 99, 97, 99, 104, 101>>

\* A variant that hashes no text: every key of a root gets one path.
file_path_ignoring_key(root, key) ==
  root \o Extension(HexLower(Sha256(<<>>)))

\* A variant that hashes the key's type along with its text.
file_path_by_type(root, key) ==
  root \o Extension(HexLower(Sha256(
            (IF key.kind = "int" THEN <<105>> ELSE <<115>>) \o to_string(key))))

\* The path of the key's file under the root (lines 42-52).
file_path(root, key) ==
  root \o Extension(HexLower(Sha256(to_string(key))))

\* file_path is a function of the root and the key alone: its values, computed once.
PathTable == [r \in Roots, k \in PathKeys |-> file_path(r, k)]

Texts == {to_string(k) : k \in Keys}

\* A cache entry as the caller names it: the root and the key's text.
Entries == Roots \X Texts

(***************************************************************************)
(* The file backend (file_storage::FilePath), by its contract: each call   *)
(* either succeeds or reports an error.                                    *)
(***************************************************************************)
Lookup(f, p) ==
  IF p \in DOMAIN f THEN [tag |-> "Some", bytes |-> f[p]]
  ELSE [tag |-> "None", bytes |-> <<>>]

\* A variant of the delete that reports success and removes nothing.
delete_nothing(f, p, ok) == f

Store(f, p, d) == [q \in (DOMAIN f) \cup {p} |-> IF q = p THEN d ELSE f[q]]

Remove(f, p) == [q \in (DOMAIN f) \ {p} |-> f[q]]

\* file.delete_if_exists() (line 69): the files afterwards.
delete_if_exists(f, p, ok) == IF ok THEN Remove(f, p) ELSE f

\* What a write of d may leave when it reports an error: the files as they
\* were (torn < 0) or the first torn bytes of d.
TornWrites(d) == {-1} \cup (0..(Len(d) - 1))

\* file.write_data(data) (line 70): the files afterwards.
write_data(f, p, d, ok, torn) ==
  IF ok THEN Store(f, p, d)
  ELSE IF torn < 0 THEN f
  ELSE Store(f, p, SubSeq(d, 1, torn))

Ok == [tag |-> "Ok", bytes |-> <<>>, cause |-> "none"]

Err(cause) == [tag |-> "Err", bytes |-> <<>>, cause |-> cause]

NoResult == [tag |-> "none", bytes |-> <<>>, cause |-> "none"]

\* Variants of the read: one for which a missing file is an error, one for
\* which it is an empty file.
read_as_vec(f, p, ok) ==
  IF ~ok \/ p \notin DOMAIN f THEN Err("read")
  ELSE [tag |-> "Some", bytes |-> f[p], cause |-> "none"]

read_as_vec_or_empty(f, p, ok) ==
  IF ~ok THEN Err("read")
  ELSE [tag |-> "Some", bytes |-> Lookup(f, p).bytes, cause |-> "none"]

\* file.read_as_vec_if_exists() (line 82): Ok(Some(bytes)), Ok(None) or Err.
read_as_vec_if_exists(f, p, ok) ==
  IF ~ok THEN Err("read")
  ELSE [tag |-> Lookup(f, p).tag, bytes |-> Lookup(f, p).bytes, cause |-> "none"]

(***************************************************************************)
(* The control flow of put (lines 68-70) and get (line 82): the backend    *)
(* calls a method makes, in order.                                         *)
(***************************************************************************)
\* A variant of put that writes without deleting first.
FlowWriteOnly(kind) == IF kind = "put" THEN <<"write">> ELSE <<"read">>

\* A variant of get that removes the file once it was read.
FlowReadThenDelete(kind) ==
  IF kind = "put" THEN <<"delete", "write">> ELSE <<"read", "delete">>

\* A variant with the two calls of put in the other order.
FlowWriteThenDelete(kind) ==
  IF kind = "put" THEN <<"write", "delete">> ELSE <<"read">>

Flow(kind) == IF kind = "put" THEN <<"delete", "write">> ELSE <<"read">>

FirstStep(kind) == Flow(kind)[1]

(***************************************************************************)
(* State.                                                                  *)
(***************************************************************************)
VARIABLES
  cache_folder,  \* the root of each caller's cache value (line 16)
  fs,            \* the files: path -> bytes
  pc,            \* where each caller is: idle, in a backend call, panicked
  call,          \* the method call each caller is in
  ret,           \* the call that returned in the last step, with its result
  puts,          \* per entry: the payloads of the puts started on it
  okPuts,        \* per entry: the payloads of its latest run of successful puts
  lastWrite,     \* per entry: the outcome of the latest write step on it
  faults,        \* the backend errors so far
  calls,         \* the calls started so far
  fs0,           \* the files when the latest call started
  temps          \* the folders FolderPath::temp() has allocated

vars ==
  <<cache_folder, fs, pc, call, ret, puts, okPuts, lastWrite, faults, calls,
    fs0, temps>>

NoFiles == [p \in {} |-> <<>>]

NoContent == [tag |-> "none", bytes |-> <<>>]

NoCall ==
  [kind |-> "none", key |-> IntKey(0), data |-> <<>>, derived |-> TRUE,
   file |-> <<>>, steps |-> <<>>, conc |-> {}, again |-> FALSE,
   start |-> NoContent]

NoRet == [caller |-> "none", call |-> NoCall, res |-> NoResult]

InFlight(t) == pc[t] \in {"delete", "write", "read"}

Entry(t, key) == <<cache_folder[t], to_string(key)>>

\* A variant that avoids a path at which a file is: it appends "~".
self_file_path_unused(t, key) ==
  IF PathTable[cache_folder[t], key] \in DOMAIN fs
    THEN PathTable[cache_folder[t], key] \o <<126>>
    ELSE PathTable[cache_folder[t], key]

\* A variant in which every cache value but the first salts its paths.
self_file_path_salted(t, key) ==
  PathTable[cache_folder[t], key] \o (IF t = "a" THEN <<>> ELSE <<126>>)

\* self.file_path(key) (lines 68, 82, 99) on caller t's cache value.
self_file_path(t, key) == PathTable[cache_folder[t], key]

\* A variant in which the extension is appended to the root's path in place,
\* so that the cache's folder becomes the path returned.
cache_folder_appended(root, path) == path

\* The root of a cache value after file_path returned path: the methods take
\* &self (lines 38, 63, 78) and clone_append (line 52) appends to a copy.
cache_folder_after(root, path) == root

\* The payloads of the puts in flight on entry e.
PutsInFlight(e) ==
  {call[u].data : u \in {v \in Callers : InFlight(v) /\ call[v].kind = "put"
                                         /\ Entry(v, call[v].key) = e}}

\* Caller a's cache is made from GivenRoot (From<FolderPath>); caller b's is a
\* clone of it or a cache made by temp().  No file is there yet.
Init ==
  /\ \E root \in Roots :
       cache_folder = [t \in Callers |-> IF t = "a" THEN GivenRoot ELSE root]
  /\ fs = NoFiles
  /\ fs0 = NoFiles
  /\ pc = [t \in Callers |-> "idle"]
  /\ call = [t \in Callers |-> NoCall]
  /\ ret = NoRet
  /\ puts = [e \in Entries |-> {}]
  /\ okPuts = [e \in Entries |-> <<>>]
  /\ lastWrite = [e \in Entries |-> NoResult]
  /\ faults = 0
  /\ calls = 0
  /\ temps = {cache_folder[t] : t \in Callers} \ {GivenRoot}

\* The outcomes a backend call may have: an error while the budget lasts.
Outcomes == IF faults < MaxFaults THEN {TRUE, FALSE} ELSE {TRUE}

Charge(ok) == faults' = IF ok THEN faults ELSE faults + 1

(***************************************************************************)
(* A caller starts put(key, data) or get(key): the method derives the file *)
(* path (lines 68, 82).  to_file() and the hex encoder return an Option    *)
(* and a Result that file_path unwraps (lines 47, 54): when either has no  *)
(* value the thread panics and the call never returns.  Whether they have  *)
(* one is the collaborator's answer (derived), not decided by this source. *)
(***************************************************************************)
Begin(t, kind, key, data, derived) ==
  LET e == Entry(t, key)
      c == [kind |-> kind, key |-> key, data |-> data, derived |-> derived,
            file |-> IF derived THEN self_file_path(t, key) ELSE <<>>,
            steps |-> <<>>,
            conc |-> PutsInFlight(e),
            again |-> kind = "put" /\ okPuts[e] # <<>>
                      /\ okPuts[e][Len(okPuts[e])] = data,
            start |-> IF derived
                        THEN Lookup(fs, self_file_path(t, key))
                        ELSE NoContent]
  IN  /\ pc[t] = "idle"
      /\ calls < MaxCalls
      /\ calls' = calls + 1
      /\ Charge(derived)
      /\ pc' = [pc EXCEPT ![t] = IF derived THEN FirstStep(kind) ELSE "panicked"]
      /\ call' = [u \in Callers |->
                    IF u = t THEN c
                    ELSE IF kind = "put" /\ derived /\ InFlight(u)
                            /\ Entry(u, call[u].key) = e
                      THEN [call[u] EXCEPT !.conc = @ \cup {data}]
                    ELSE call[u]]
      /\ puts' = IF kind = "put" /\ derived
                   THEN [puts EXCEPT ![e] = @ \cup {data}] ELSE puts
      /\ ret' = NoRet
      /\ fs0' = fs
      /\ cache_folder' =
           [cache_folder EXCEPT ![t] =
              IF derived THEN cache_folder_after(@, self_file_path(t, key))
              ELSE @]
      /\ UNCHANGED <<fs, okPuts, lastWrite, temps>>

BeginPut(t) ==
  \E key \in Keys, data \in Data, derived \in Outcomes :
    Begin(t, "put", key, data, derived)

BeginGet(t) ==
  \E key \in Keys, derived \in Outcomes : Begin(t, "get", key, <<>>, derived)

\* What follows a backend call of caller t: on an error the method returns
\* it at once (the ? of line 69, the tail calls of lines 70 and 82); else the
\* next call of the method's flow, and the return after the last one.
\* Variants: one goes on after an error, one returns once delete_if_exists
\* has removed a file.
AfterStepNoEarlyReturn(t, step, ok) ==
  LET flow == Flow(call[t].kind)
      i    == Len(call[t].steps) + 1
  IN  IF i < Len(flow) THEN flow[i + 1] ELSE "return"

AfterStepDoneIfDeleted(t, step, ok) ==
  LET flow == Flow(call[t].kind)
      i    == Len(call[t].steps) + 1
  IN  IF ~ok THEN "return"
      ELSE IF step = "delete" /\ call[t].file \in DOMAIN fs THEN "return"
      ELSE IF i < Len(flow) THEN flow[i + 1] ELSE "return"

AfterStep(t, step, ok) ==
  LET flow == Flow(call[t].kind)
      i    == Len(call[t].steps) + 1
  IN  IF ~ok THEN "return"
      ELSE IF i < Len(flow) THEN flow[i + 1] ELSE "return"

\* Caller t's call goes on to its next backend call, or returns res.
Proceed(t, step, ok, res) ==
  LET c    == [call[t] EXCEPT !.steps = Append(@, <<step, ok>>)]
      next == AfterStep(t, step, ok)
      e    == Entry(t, call[t].key)
  IN  IF next = "return"
        THEN /\ pc' = [pc EXCEPT ![t] = "idle"]
             /\ call' = [call EXCEPT ![t] = NoCall]
             /\ ret' = [caller |-> t, call |-> c, res |-> res]
             /\ okPuts' = IF c.kind # "put" THEN okPuts
                          ELSE IF res.tag # "Ok" THEN [okPuts EXCEPT ![e] = <<>>]
                          ELSE [okPuts EXCEPT ![e] =
                                  IF @ = <<>> THEN <<c.data>>
                                  ELSE <<@[Len(@)], c.data>>]
        ELSE /\ pc' = [pc EXCEPT ![t] = next]
             /\ call' = [call EXCEPT ![t] = c]
             /\ ret' = NoRet
             /\ UNCHANGED okPuts

\* file.delete_if_exists()? (line 69)
Delete(t) ==
  /\ pc[t] = "delete"
  /\ \E ok \in Outcomes :
       /\ Charge(ok)
       /\ fs' = delete_if_exists(fs, call[t].file, ok)
       /\ Proceed(t, "delete", ok, IF ok THEN Ok ELSE Err("delete"))
  /\ UNCHANGED <<cache_folder, puts, lastWrite, calls, fs0, temps>>

\* file.write_data(data) (line 70)
Write(t) ==
  /\ pc[t] = "write"
  /\ \E ok \in Outcomes :
       \E torn \in IF ok THEN {-1} ELSE TornWrites(call[t].data) :
         /\ Charge(ok)
         /\ fs' = write_data(fs, call[t].file, call[t].data, ok, torn)
         /\ lastWrite' = [lastWrite EXCEPT ![Entry(t, call[t].key)] =
                            IF ok THEN [tag |-> "Ok", bytes |-> call[t].data,
                                        cause |-> "none"]
                            ELSE Err("write")]
         /\ Proceed(t, "write", ok, IF ok THEN Ok ELSE Err("write"))
  /\ UNCHANGED <<cache_folder, puts, calls, fs0, temps>>

\* self.file_path(key).read_as_vec_if_exists() (line 82)
Read(t) ==
  /\ pc[t] = "read"
  /\ \E ok \in Outcomes :
       /\ Charge(ok)
       /\ Proceed(t, "read", ok, read_as_vec_if_exists(fs, call[t].file, ok))
  /\ UNCHANGED <<cache_folder, fs, puts, lastWrite, calls, fs0, temps>>

Quiet == \A t \in Callers : ~InFlight(t)

\* One caller at a time: a call starts when no call is in progress.
Next ==
  \E t \in Callers :
    \/ Quiet /\ BeginPut(t)
    \/ Quiet /\ BeginGet(t)
    \/ Delete(t)
    \/ Write(t)
    \/ Read(t)

Spec == Init /\ [][Next]_vars

\* Callers that share the files and are not coordinated (threads, processes).
NextConc ==
  \E t \in Callers :
    \/ BeginPut(t)
    \/ BeginGet(t)
    \/ Delete(t)
    \/ Write(t)
    \/ Read(t)

\* The callers that race are those that share one root.
InitConc == Init /\ \A t \in Callers : cache_folder[t] = GivenRoot

SpecConc == InitConc /\ [][NextConc]_vars

\* A caller asks its cache for the path of a key (the public file_path, as
\* the test of line 99 does): no backend call is made, the path is returned.
FilePath(t) ==
  \E key \in PathKeys, derived \in Outcomes :
    /\ pc[t] = "idle"
    /\ calls < MaxCalls
    /\ calls' = calls + 1
    /\ Charge(derived)
    /\ pc' = [pc EXCEPT ![t] = IF derived THEN "idle" ELSE "panicked"]
    /\ ret' = IF derived
                THEN [caller |-> t,
                      call |-> [NoCall EXCEPT !.kind = "file_path", !.key = key,
                                              !.file = self_file_path(t, key)],
                      res |-> Ok]
                ELSE NoRet
    /\ fs0' = fs
    /\ cache_folder' =
         [cache_folder EXCEPT ![t] =
            IF derived THEN cache_folder_after(@, self_file_path(t, key))
            ELSE @]
    /\ UNCHANGED <<fs, call, puts, okPuts, lastWrite, temps>>

NextPath == \E t \in Callers : FilePath(t)

\* Callers that only ask for paths.
SpecPath == Init /\ [][NextPath]_vars

(***************************************************************************)
(* Construction (lines 23-32).  A caller that has no cache value yet makes *)
(* one with from or temp, and then uses it.                                *)
(***************************************************************************)
NoFolder == <<>>

\* Self { cache_folder } (lines 29-31): a cache value is its root.
from(folder) == folder

\* FolderPath::temp() (line 24), by its contract: a folder not allocated
\* before, or an I/O error.
FolderPath_temp(ok) ==
  IF ok THEN [tag |-> "Ok", folder |-> TempRoot]
  ELSE [tag |-> "Err", folder |-> NoFolder]

\* A variant that falls back to a fixed folder when none was allocated.
temp_or_given(allocated) ==
  IF allocated.tag = "Ok"
    THEN [res |-> Ok, cache |-> from(allocated.folder)]
    ELSE [res |-> Ok, cache |-> from(GivenRoot)]

\* Ok(Self::from(FolderPath::temp()?)) (line 24)
temp(allocated) ==
  IF allocated.tag = "Ok"
    THEN [res |-> Ok, cache |-> from(allocated.folder)]
    ELSE [res |-> Err("temp"), cache |-> NoFolder]

\* Caller t, constructed or not after the constructor returned res.
Constructed(t, kind, folder, steps, made) ==
  /\ pc[t] = "new"
  /\ calls < MaxCalls
  /\ calls' = calls + 1
  /\ cache_folder' = [cache_folder EXCEPT ![t] = made.cache]
  /\ pc' = [pc EXCEPT ![t] = IF made.res = Ok THEN "idle" ELSE "new"]
  /\ ret' = [caller |-> t,
             call |-> [NoCall EXCEPT !.kind = kind, !.file = folder,
                                     !.steps = steps],
             res |-> made.res]
  /\ fs0' = fs
  /\ UNCHANGED <<fs, call, puts, okPuts, lastWrite>>

\* SimpleFileCache::from(folder) (lines 28-32)
From(t) ==
  \E folder \in Roots :
    /\ Constructed(t, "from", folder, <<>>, [res |-> Ok, cache |-> from(folder)])
    /\ UNCHANGED <<faults, temps>>

\* SimpleFileCache::temp() (lines 23-25); the model has one folder to allocate.
Temp(t) ==
  \E ok \in Outcomes :
    /\ TempRoot \notin temps
    /\ Charge(ok)
    /\ temps' = IF ok THEN temps \cup {FolderPath_temp(ok).folder} ELSE temps
    /\ Constructed(t, "temp", FolderPath_temp(ok).folder, <<<<"temp", ok>>>>,
                   temp(FolderPath_temp(ok)))

InitBuild ==
  /\ cache_folder = [t \in Callers |-> NoFolder]
  /\ fs = NoFiles
  /\ fs0 = NoFiles
  /\ pc = [t \in Callers |-> "new"]
  /\ call = [t \in Callers |-> NoCall]
  /\ ret = NoRet
  /\ puts = [e \in Entries |-> {}]
  /\ okPuts = [e \in Entries |-> <<>>]
  /\ lastWrite = [e \in Entries |-> NoResult]
  /\ faults = 0
  /\ calls = 0
  /\ temps = {}

NextBuild ==
  \E t \in Callers :
    \/ Quiet /\ From(t)
    \/ Quiet /\ Temp(t)
    \/ Quiet /\ BeginPut(t)
    \/ Quiet /\ BeginGet(t)
    \/ Delete(t)
    \/ Write(t)
    \/ Read(t)

\* The callers construct their caches, then use them one at a time.
SpecBuild == InitBuild /\ [][NextBuild]_vars

\* #[derive(Clone)] (line 14): the clone has the root of the original.
clone(cache) == cache

\* Caller t gets a clone of the cache value of a caller that has one.
Clone(t) ==
  \E u \in Callers \ {t} :
    /\ pc[u] # "new"
    /\ Constructed(t, "clone", cache_folder[u], <<>>,
                   [res |-> Ok, cache |-> clone(cache_folder[u])])
    /\ UNCHANGED <<faults, temps>>

\* Caller a has a cache made from GivenRoot; caller b has none yet.
InitShare ==
  /\ cache_folder = [t \in Callers |-> IF t = "a" THEN from(GivenRoot) ELSE NoFolder]
  /\ fs = NoFiles
  /\ fs0 = NoFiles
  /\ pc = [t \in Callers |-> IF t = "a" THEN "idle" ELSE "new"]
  /\ call = [t \in Callers |-> NoCall]
  /\ ret = NoRet
  /\ puts = [e \in Entries |-> {}]
  /\ okPuts = [e \in Entries |-> <<>>]
  /\ lastWrite = [e \in Entries |-> NoResult]
  /\ faults = 0
  /\ calls = 0
  /\ temps = {}

\* Caller a puts; caller b gets its cache value at some time, as a clone of
\* a's or from a folder, and gets.
NextShare ==
  \/ Quiet /\ BeginPut("a")
  \/ Delete("a")
  \/ Write("a")
  \/ Quiet /\ Clone("b")
  \/ Quiet /\ From("b")
  \/ Quiet /\ BeginGet("b")
  \/ Read("b")

SpecShare == InitShare /\ [][NextShare]_vars

(***************************************************************************)
(* Properties.  ret holds a call in the state right after it returned; in  *)
(* Spec no other call is in progress then, so fs is what the call left and *)
(* fs0 is what it found.                                                   *)
(***************************************************************************)
Returned(kind) == ret.caller # "none" /\ ret.call.kind = kind

RetEntry == <<cache_folder[ret.caller], to_string(ret.call.key)>>

Some(d) == [tag |-> "Some", bytes |-> d, cause |-> "none"]

None == [tag |-> "None", bytes |-> <<>>, cause |-> "none"]

Latest(seq) == seq[Len(seq)]

\* The beginnings of d, d itself included.
Prefixes(d) == {SubSeq(d, 1, n) : n \in 0..Len(d)}

\* C1: put/get round trip.  A get of an entry on which no put was ever
\* started returns Ok(None) (an error only if the backend read failed); a get
\* that follows a successful put(k, d) returns Ok(Some(d)).
PutGetRoundTrip ==
  Returned("get") =>
    /\ puts[RetEntry] = {} =>
         ret.res = IF ret.call.steps = << <<"read", TRUE>> >> THEN None
                   ELSE Err("read")
    /\ (okPuts[RetEntry] # <<>> /\ ret.res.tag # "Err") =>
         ret.res = Some(Latest(okPuts[RetEntry]))

\* A get returned the payload of the put before it, and a get returned absent
\* for an entry never put while another entry held a file.
PutGetRoundTripWitness ==
  /\ Returned("get")
  /\ okPuts[RetEntry] # <<>>
  /\ ret.res = Some(Latest(okPuts[RetEntry]))
  /\ \E e \in Entries : puts[e] = {}

\* C2: overwrite.  After put(k, d1) and put(k, d2) succeeded in sequence, get(k)
\* returns exactly d2: not d1, and no mixture of the two.
Overwrite ==
  (Returned("get") /\ Len(okPuts[RetEntry]) = 2 /\ ret.res.tag # "Err") =>
    /\ ret.res.tag = "Some"
    /\ ret.res.bytes = okPuts[RetEntry][2]
    /\ okPuts[RetEntry][1] # okPuts[RetEntry][2] =>
         ret.res.bytes # okPuts[RetEntry][1]

OverwriteWitness ==
  /\ Returned("get")
  /\ Len(okPuts[RetEntry]) = 2
  /\ okPuts[RetEntry][1] # okPuts[RetEntry][2]
  /\ ret.res = Some(okPuts[RetEntry][2])

\* C3: key distinctness.  A step of put(k1, .) leaves the file of every entry
\* whose root or key text differs from k1's as it was, and get(k2) returns only
\* bytes that a put under k2's own text wrote.
KeyDistinctness ==
  [][\A t \in Callers :
       /\ (pc[t] \in {"delete", "write"} /\ pc'[t] # pc[t]) =>
            \A r \in Roots, k \in Keys :
              <<r, to_string(k)>> # Entry(t, call[t].key) =>
                Lookup(fs', PathTable[r, k]) = Lookup(fs, PathTable[r, k])
       /\ (pc[t] = "read" /\ pc'[t] # pc[t] /\ ret'.res.tag = "Some") =>
            \E d \in puts[Entry(t, call[t].key)] : ret'.res.bytes \in Prefixes(d)
    ]_vars

\* A get of one key returned absent while the file of a key with another text
\* was there, under the same root.
KeyDistinctnessWitness ==
  /\ Returned("get")
  /\ ret.res = None
  /\ \E k \in Keys :
       /\ to_string(k) # to_string(ret.call.key)
       /\ PathTable[cache_folder[ret.caller], k] \in DOMAIN fs

\* C4: absence is not an error.  A get whose file does not exist returns
\* Ok(None); get returns an error exactly when the backend read failed.
AbsenceIsNotAnError ==
  Returned("get") =>
    /\ ret.res.tag = "Err" <=> ret.call.steps = << <<"read", FALSE>> >>
    /\ (ret.call.file \notin DOMAIN fs /\ ret.call.steps = << <<"read", TRUE>> >>)
         => ret.res = None

AbsenceIsNotAnErrorWitness ==
  /\ Returned("get")
  /\ ret.call.file \notin DOMAIN fs
  /\ ret.res = None
  /\ fs # NoFiles

\* C5: a path-derivation failure is an error value.  When to_file() or the hex
\* encoder has no value, the call (file_path, put or get) returns an error to
\* its caller, having made no backend call.
DerivationFailureIsReturned ==
  \A t \in Callers :
    (call[t].kind # "none" /\ ~call[t].derived) =>
      /\ pc[t] # "panicked"
      /\ call[t].steps = <<>>

\* The file of entry e.
PathOf(e) == PathTable[e[1], CHOOSE k \in Keys : to_string(k) = e[2]]

\* C6: concurrent puts.  Once no put is in progress on an entry whose latest
\* write step succeeded, the entry's file holds the payload of that write:
\* it is neither absent nor the payload of an earlier write.
ConcurrentPutsLastWriteWins ==
  \A e \in Entries :
    (PutsInFlight(e) = {} /\ lastWrite[e].tag = "Ok") =>
      Lookup(fs, PathOf(e)) = [tag |-> "Some", bytes |-> lastWrite[e].bytes]

\* Two puts of different payloads on one entry ran concurrently and both
\* succeeded.
ConcurrentPutsWitness ==
  /\ Returned("put")
  /\ ret.res = Ok
  /\ ret.call.conc # {}
  /\ ret.call.data \notin ret.call.conc
  /\ PutsInFlight(RetEntry) = {}
  /\ Len(okPuts[RetEntry]) = 2
  /\ faults = 0

\* C7: get racing put.  A get returns what the file held when the get started
\* or, if puts on the entry ran concurrently with it, absent, the payload of
\* one of them, or (only after a write that failed) the beginning of one; never
\* anything else.
GetRacingPut ==
  (Returned("get") /\ ret.res.tag # "Err") =>
    \/ [tag |-> ret.res.tag, bytes |-> ret.res.bytes] = ret.call.start
    \/ /\ ret.call.conc # {}
       /\ \/ ret.res = None
          \/ ret.res.tag = "Some" /\ ret.res.bytes \in ret.call.conc
          \/ /\ faults > 0
             /\ ret.res.tag = "Some"
             /\ \E d \in ret.call.conc : ret.res.bytes \in Prefixes(d)

\* A get that started when the file held d1 returned absent, between the delete
\* and the write of a concurrent put of d2: put is not atomic for readers.
GetRacingPutWitness ==
  /\ Returned("get")
  /\ ret.res = None
  /\ ret.call.start.tag = "Some"
  /\ \E t \in Callers :
       /\ pc[t] = "write"
       /\ call[t].file = ret.call.file
       /\ call[t].data # ret.call.start.bytes
       /\ call[t].data \in ret.call.conc
  /\ faults = 0

\* C8: the outcome of put.  put returns Ok exactly when its delete step and then
\* its write step succeeded; it returns the delete step's error when that step
\* failed (no write is made) and the write step's error when that one failed;
\* no step is made twice.
PutErrorOutcome ==
  Returned("put") =>
    \/ ret.call.steps = << <<"delete", TRUE>>, <<"write", TRUE>> >> /\ ret.res = Ok
    \/ ret.call.steps = << <<"delete", FALSE>> >> /\ ret.res = Err("delete")
    \/ /\ ret.call.steps = << <<"delete", TRUE>>, <<"write", FALSE>> >>
       /\ ret.res = Err("write")

PutErrorOutcomeWitness ==
  /\ Returned("put")
  /\ ret.call.steps = << <<"delete", FALSE>> >>
  /\ ret.res = Err("delete")
  /\ ret.call.file \in DOMAIN fs

\* C9: a failed put leaves nothing half-applied.  When put fails, every other
\* file is as the call found it, and the entry's own file is as it was (the
\* delete failed), or gone, or the beginning of the payload that the failed
\* write left.
FailedPutEffect ==
  (Returned("put") /\ ret.res.tag = "Err") =>
    /\ \A p \in ((DOMAIN fs) \cup (DOMAIN fs0)) \ {ret.call.file} :
         Lookup(fs, p) = Lookup(fs0, p)
    /\ IF ret.res.cause = "delete"
         THEN Lookup(fs, ret.call.file) = Lookup(fs0, ret.call.file)
         ELSE \/ ret.call.file \notin DOMAIN fs
              \/ /\ fs[ret.call.file] \in Prefixes(ret.call.data)
                 /\ fs[ret.call.file] # ret.call.data

\* A put on an entry that held a payload failed in its write step, which left
\* the beginning of the new payload, while another file was there.
FailedPutEffectWitness ==
  /\ Returned("put")
  /\ ret.res = Err("write")
  /\ ret.call.file \in DOMAIN fs0
  /\ ret.call.file \in DOMAIN fs
  /\ fs[ret.call.file] # fs0[ret.call.file]
  /\ \E p \in DOMAIN fs : p # ret.call.file

\* C10: put is idempotent.  A successful put(k, d) that follows a successful
\* put(k, d) leaves the files as it found them, that is as the first one left
\* them.
PutIdempotent ==
  (Returned("put") /\ ret.res = Ok /\ ret.call.again) => fs = fs0

PutIdempotentWitness ==
  /\ Returned("put")
  /\ ret.res = Ok
  /\ ret.call.again
  /\ okPuts[RetEntry] = <<ret.call.data, ret.call.data>>
  /\ fs = fs0
  /\ fs # NoFiles

(***************************************************************************)
(* Properties of file_path.                                                *)
(***************************************************************************)
\* The characters of lowercase hexadecimal.
LowerHex == {HexDigits[i] : i \in 1..16}

\* The cache's folder as text, then the rest of the returned path.
RootOf(path, root) == SubSeq(path, 1, Len(root))

RestOf(path, root) == SubSeq(path, Len(root) + 1, Len(path))

\* The path the repository's test expects for "Hello, World!" under
\* "/cache/folder/" (lines 101-102).
ExpectedHelloWorldPath ==
  <<47, 99, 97, 99, 104, 101, 47, 102, 111, 108, 100, 101, 114, 47,
    100, 102, 102, 100, 47,
    54, 48, 50, 49, 98, 98, 50, 98, 100, 53, 98, 48, 97, 102, 54, 55, 54, 50,
    57, 48, 56, 48, 57, 101, 99, 51, 97, 53, 51, 49, 57, 49, 100, 100, 56, 49,
    99, 55, 102, 55, 48, 97, 52, 98, 50, 56, 54, 56, 56, 97, 51, 54, 50, 49,
    56, 50, 57, 56, 54, 102,
    46, 99, 97, 99, 104, 101>>

\* C11: on one cache, file_path returns the same path for two keys exactly
\* when their Display texts are the same bytes, whatever the keys' types: for
\* the key just asked about and every other key.
SameEntryIffSameText ==
  Returned("file_path") =>
    \A k \in PathKeys :
      (ret.call.file = self_file_path(ret.caller, k))
        <=> (to_string(ret.call.key) = to_string(k))

\* The path of the integer 7 was returned, and it is the path of the text "7".
SameEntryIffSameTextWitness ==
  /\ Returned("file_path")
  /\ ret.call.key = IntKey(7)
  /\ ret.call.file = self_file_path(ret.caller, StrKey(<<55>>))
  /\ ret.call.file # self_file_path(ret.caller, StrKey(<<107, 101, 121>>))

\* C12: the path file_path returns is the root's text, then 4 characters,
\* "/", 60 characters and ".cache", where the 64 characters are the lowercase
\* hexadecimal SHA-256 digest of the key's text; for "Hello, World!" under
\* "/cache/folder/" it is the path the repository's test expects.
PathFormat ==
  Returned("file_path") =>
    LET root == cache_folder[ret.caller]
        rest == RestOf(ret.call.file, root)
        hex  == SubSeq(rest, 1, 4) \o SubSeq(rest, 6, 65)
    IN  /\ RootOf(ret.call.file, root) = root
        /\ Len(rest) = 4 + 1 + 60 + 6
        /\ rest[5] = 47
        /\ SubSeq(rest, 66, 71) = <<46, 99, 97, 99, 104, 101>>
        /\ \A i \in 1..64 : hex[i] \in LowerHex
        /\ hex = HexLower(Sha256(to_string(ret.call.key)))
        /\ (ret.call.key = HelloWorld /\ root = GivenRoot)
             => ret.call.file = ExpectedHelloWorldPath

\* The path of "Hello, World!" under "/cache/folder/" was returned.
PathFormatWitness ==
  /\ Returned("file_path")
  /\ ret.call.key = HelloWorld
  /\ cache_folder[ret.caller] = GivenRoot
  /\ ret.call.file = ExpectedHelloWorldPath

RootImmutable == [][cache_folder' = cache_folder]_vars

\* All calls were made, one failed, files were written, and the caches have
\* the roots they were constructed with.
RootImmutableWitness ==
  /\ calls = MaxCalls
  /\ faults > 0
  /\ fs # NoFiles
  /\ ret.caller = "b"
  /\ cache_folder["a"] = GivenRoot
  /\ cache_folder["b"] = TempRoot

\* C15: construction.  from(folder) always returns a cache with that folder
\* as root and makes no filesystem operation; temp() asks for a temporary
\* folder: when that fails it returns the I/O error and the caller has no
\* cache, otherwise the cache's root is the folder just allocated.
Construction ==
  [][\A t \in Callers :
       (pc[t] = "new" /\ ret'.caller = t) =>
         \/ /\ ret'.call.kind = "from"
            /\ ret'.call.steps = <<>>
            /\ ret'.res = Ok
            /\ pc'[t] = "idle"
            /\ cache_folder'[t] = ret'.call.file
            /\ fs' = fs /\ temps' = temps /\ faults' = faults
         \/ /\ ret'.call.kind = "temp"
            /\ ret'.call.steps = <<<<"temp", TRUE>>>>
            /\ ret'.res = Ok
            /\ pc'[t] = "idle"
            /\ cache_folder'[t] \in temps' \ temps
            /\ fs' = fs
         \/ /\ ret'.call.kind = "temp"
            /\ ret'.call.steps = <<<<"temp", FALSE>>>>
            /\ ret'.res = Err("temp")
            /\ pc'[t] = "new"
            /\ cache_folder'[t] = NoFolder
            /\ fs' = fs /\ temps' = temps]_vars

\* temp() just failed for one caller, who has no cache, while the other
\* caller's cache made by from has written a file.
ConstructionWitness ==
  /\ Returned("temp")
  /\ ret.res = Err("temp")
  /\ pc[ret.caller] = "new"
  /\ cache_folder[ret.caller] = NoFolder
  /\ \E u \in Callers : cache_folder[u] = GivenRoot
  /\ fs # NoFiles

\* C16: entries belong to the root and the key, not to the cache value.  When
\* caller b's cache (a clone of caller a's, or one made from a folder at any
\* time) has a's root, a get through it that does not fail returns the
\* payload of a's latest successful put on that key, and absent when a never
\* put the key.
SharedByRoot ==
  (Returned("get") /\ ret.caller = "b" /\ cache_folder["b"] = cache_folder["a"]
     /\ ret.res.tag # "Err")
    => LET e == <<cache_folder["a"], to_string(ret.call.key)>>
       IN  /\ okPuts[e] # <<>> => ret.res = Some(Latest(okPuts[e]))
           /\ puts[e] = {} => ret.res = None

\* Caller b, whose cache has a's root, got the payload a put.
SharedByRootWitness ==
  /\ Returned("get")
  /\ ret.caller = "b"
  /\ cache_folder["b"] = cache_folder["a"]
  /\ okPuts[<<cache_folder["a"], to_string(ret.call.key)>>] # <<>>
  /\ ret.res = Some(Latest(okPuts[<<cache_folder["a"], to_string(ret.call.key)>>]))

\* C17: within one put, delete_if_exists comes first and write_data comes
\* only after it succeeded; when the delete fails the put returns its error
\* without a write, and the file has the content it had before the call.
DeleteBeforeWrite ==
  [][\A t \in Callers :
       /\ (pc[t] = "idle" /\ pc'[t] # "idle" /\ call'[t].kind = "put"
             /\ call'[t].derived)
            => pc'[t] = "delete"
       /\ (pc[t] # "write" /\ pc'[t] = "write")
            => pc[t] = "delete" /\ call'[t].steps = <<<<"delete", TRUE>>>>
       /\ (pc[t] = "delete" /\ pc'[t] # "delete" /\ faults' # faults)
            => /\ pc'[t] = "idle"
               /\ ret'.caller = t
               /\ ret'.res = Err("delete")
               /\ ret'.call.steps = <<<<"delete", FALSE>>>>
               /\ Lookup(fs', call[t].file) = call[t].start]_vars

\* A put on a key that had a value returned the delete's error without
\* having written, and the value is still there.
DeleteBeforeWriteWitness ==
  /\ Returned("put")
  /\ ret.call.steps = <<<<"delete", FALSE>>>>
  /\ ret.call.start.tag = "Some"
  /\ ret.call.start.bytes # ret.call.data
  /\ Lookup(fs, ret.call.file) = ret.call.start

\* C18: a failed overwrite loses the old value.  When the write of a put
\* fails, the put returns the error and the old value is not restored: the
\* file is absent or holds a beginning of the new payload; and a get that
\* finds no file after the entry's latest write failed returns absent.
FailedOverwriteLosesOldValue ==
  /\ (Returned("put") /\ ret.res = Err("write"))
       => /\ ret.call.steps = <<<<"delete", TRUE>>, <<"write", FALSE>>>>
          /\ \/ ret.call.file \notin DOMAIN fs
             \/ fs[ret.call.file] \in Prefixes(ret.call.data) \ {ret.call.data}
          /\ (ret.call.start.tag = "Some"
                /\ ret.call.start.bytes \notin Prefixes(ret.call.data))
               => Lookup(fs, ret.call.file) # ret.call.start
  /\ (Returned("get") /\ lastWrite[RetEntry].tag = "Err"
        /\ ret.call.file \notin DOMAIN fs /\ ret.res.tag # "Err")
       => ret.res = None

\* Two payloads were put on the entry, the first with success; the write of
\* the second failed leaving no file, and the get that followed returned
\* absent.
FailedOverwriteWitness ==
  /\ Returned("get")
  /\ calls = MaxCalls
  /\ faults = MaxFaults
  /\ puts[RetEntry] = Data
  /\ lastWrite[RetEntry].tag = "Err"
  /\ ret.call.file \notin DOMAIN fs
  /\ ret.res = None

\* C19: get is read-only.  No step of a get (the path derivation, the read,
\* the return of a value, of absent or of an error) changes the content of
\* any file, under any key.
GetIsReadOnly ==
  [][\A t \in Callers :
       (pc'[t] # pc[t] /\ (call[t].kind = "get" \/ call'[t].kind = "get"))
         => fs' = fs]_vars

\* A get returned a value while the file of another entry was there too,
\* after a backend call had failed.
GetIsReadOnlyWitness ==
  /\ Returned("get")
  /\ ret.res.tag = "Some"
  /\ fs = fs0
  /\ faults > 0
  /\ \E p \in DOMAIN fs : p # ret.call.file

====
